---- MODULE Spec2Model ----
(***************************************************************************)
(* Model of the ElaService reconciliation controller                       *)
(* (pkg/controller/elaservice/controller.go): the informer notifications,  *)
(* the rate limited work queue, the worker pool, the sync handler with its *)
(* three apply steps, and the route resolver.                              *)
(*                                                                         *)
(* Every call to the API server or to the work queue is one atomic step of *)
(* the worker that makes it; everything a worker does between two such     *)
(* calls belongs to the step of the earlier call.                          *)
(***************************************************************************)
EXTENDS Integers, Sequences, FiniteSets, TLC

(***************************************************************************)
(* Bounds                                                                  *)
(***************************************************************************)
\* total number of add/update notifications the informer delivers to the pool
MaxNotifs == 2
\* the same, where a single ElaService is synced by a single worker
MaxSyncNotifs == 2
\* the same, where one ElaService is updated in bursts
MaxBurstNotifs == 3
\* the same, under fair scheduling
MaxLiveNotifs == 2
\* the same, where the controller is stopped
MaxRunNotifs == 2
\* notifications of the ElaService in SpecStop
MaxStopNotifs == 2
\* notifications of the ElaService in SpecItems
MaxItemNotifs == 2
\* number of changes made to the cluster by others while the controller
\* runs: an ElaService deleted, a new Latest revision stamped on a template,
\* an object created under a derived name
MaxChanges == 1

(***************************************************************************)
(* The cluster the controller runs against                                 *)
(***************************************************************************)
Namespace == "ns"
Names == {"a", "b"}
\* the watched ElaService objects (metadata only)
Objs == [Namespace : {Namespace}, Name : Names]
ObjA == [Namespace |-> Namespace, Name |-> "a"]

\* workers started by Run (the threadiness argument)
Threadiness == 2
Workers == 1..Threadiness

NoObject == [absent |-> TRUE]
nil == ""

\* v1alpha1.TrafficTarget
TrafficTarget(rev, rt, pct) == [Revision |-> rev, RevisionTemplate |-> rt, Percent |-> pct]

\* the rollouts an update may carry (Spec.Rollout.Traffic)
RolloutEmpty == << >>
RolloutSplit == << TrafficTarget("r1", "", 90), TrafficTarget("r2", "", 10) >>
\* a target with a template, one with a template and a revision, one with
\* a revision
RolloutMixed == << TrafficTarget("", "t1", 50), TrafficTarget("r2", "t1", 30),
                   TrafficTarget("r2", "", 20) >>
\* a target whose revision does not exist
RolloutBroken == << TrafficTarget("r1", "", 60), TrafficTarget("gone", "", 40) >>
Rollouts == {RolloutEmpty, RolloutSplit, RolloutMixed, RolloutBroken}
\* the rollouts each ElaService is given
RolloutsOf(name) == IF name = "a" THEN {RolloutSplit, RolloutBroken} ELSE {RolloutSplit}

\* the Revision objects of the namespace: name -> Status.ServiceName
RevisionNames == {"r1", "r2"}
RevisionServiceName(name) == name \o "-svc"
\* the RevisionTemplate objects of the namespace
TemplateNames == {"t1"}

(***************************************************************************)
(* State                                                                   *)
(***************************************************************************)
VARIABLES
  lister,       \* informer cache: ElaService -> its rollout and generation, or NoObject
  workqueue,    \* c.workqueue: queue, dirty, processing, shuttingDown,
                \* waitingForAdd (the delaying queue), failures (the rate limiter)
  services,     \* placeholder k8s services, by owning ElaService
  ingresses,    \* ingresses, by owning ElaService
  routeRules,   \* istio route rules, by owning ElaService
  templates,    \* RevisionTemplate name -> Status.Latest
  events,       \* events recorded by c.recorder: ElaService -> event type -> count
  workers,      \* the goroutines started by Run: position and locals
  run,          \* position of Run, and whether stopCh is closed
  env,          \* what the environment has done so far (budgets), and
                \* whether the deliveries are recorded in hist
  hist          \* per ElaService: gen the number of notifications, and when
                \* deliveries are recorded: notifs the last two notifications
                \* (the number of deliveries before each, and whether the key
                \* was in flight), gets the number of deliveries, read the
                \* generation the last sync found in the cache, done the
                \* generation the last completed sync found

vars == << lister, workqueue, services, ingresses, routeRules, templates,
           events, workers, run, env, hist >>

(***************************************************************************)
(* cache.MetaNamespaceKeyFunc / cache.SplitMetaNamespaceKey.  A key is the *)
(* string namespace/name; it is represented by the list of its segments    *)
(* between slashes, which is what strings.Split(key, "/") returns.         *)
(***************************************************************************)
MetaNamespaceKeyFunc(obj) ==
  IF obj.Namespace # "" THEN << obj.Namespace, obj.Name >> ELSE << obj.Name >>

SplitMetaNamespaceKey(key) ==
  CASE Len(key) = 1 -> [namespace |-> "", name |-> key[1], err |-> nil]
    [] Len(key) = 2 -> [namespace |-> key[1], name |-> key[2], err |-> nil]
    [] OTHER -> [namespace |-> "", name |-> "", err |-> "unexpected key format"]

Keys == { MetaNamespaceKeyFunc(o) : o \in Objs }

\* a string that is not a key: a/b/c has three segments
MalformedKey == << "a", "b", "c" >>
\* an item of the queue that is not a string (the queue holds interface{})
NotAString == << 0 >>
\* obj.(string) succeeds
IsString(item) == item # NotAString
\* what the queue may hold
Items == Keys \cup {MalformedKey, NotAString}

(***************************************************************************)
(* The rate limiting work queue (k8s.io/client-go/util/workqueue).         *)
(***************************************************************************)
\* workqueue.NewNamedRateLimitingQueue
NewRateLimitingQueue ==
  [ queue |-> << >>, dirty |-> {}, processing |-> {}, shuttingDown |-> FALSE,
    waitingForAdd |-> {}, failures |-> [k \in Items |-> 0] ]

\* Type.Add: a key that is dirty is not added again; a key that is being
\* processed is only marked dirty and is queued again by Done
QueueAdd(q, item) ==
  IF q.shuttingDown \/ item \in q.dirty THEN q
  ELSE IF item \in q.processing THEN [q EXCEPT !.dirty = @ \cup {item}]
  ELSE [q EXCEPT !.dirty = @ \cup {item}, !.queue = Append(@, item)]

\* Type.Get, for a queue that is not empty
QueueGet(q) ==
  [q EXCEPT !.queue = Tail(@), !.processing = @ \cup {Head(q.queue)},
            !.dirty = @ \ {Head(q.queue)}]

\* Type.Done
QueueDone(q, item) ==
  IF item \in q.dirty
  THEN [q EXCEPT !.processing = @ \ {item}, !.queue = Append(@, item)]
  ELSE [q EXCEPT !.processing = @ \ {item}]

\* rateLimitingType.Forget
QueueForget(q, item) == [q EXCEPT !.failures[item] = 0]

\* rateLimitingType.AddRateLimited: AddAfter(item, rateLimiter.When(item)).
\* When counts the requeue; the delay it returns is positive, so the item
\* waits in the delaying queue (one entry per item) until the delay is over
QueueAddRateLimited(q, item) ==
  IF q.shuttingDown THEN [q EXCEPT !.failures[item] = @ + 1]
  ELSE [q EXCEPT !.failures[item] = @ + 1, !.waitingForAdd = @ \cup {item}]

\* Type.ShutDown
QueueShutDown(q) == [q EXCEPT !.shuttingDown = TRUE]

(***************************************************************************)
(* Names and contents of the derived objects                               *)
(***************************************************************************)
\* util.GetElaNamespaceName
GetElaNamespaceName(ns) == ns \o "-ela"

\* metav1.NewControllerRef(u, serviceKind)
NewControllerRef(o) == [Kind |-> "ElaService", Name |-> o.Name]

\* MakeElaServiceK8SService with the owner reference appended
MakeElaServiceK8SService(o) ==
  [OwnerReferences |-> {NewControllerRef(o)}, Spec |-> "placeholder"]

\* MakeElaServiceIngress with the owner reference appended
MakeElaServiceIngress(o) ==
  [OwnerReferences |-> {NewControllerRef(o)}, Spec |-> "ingress"]

\* MakeElaServiceIstioSpec
MakeElaServiceIstioSpec(o, routes) == [Destination |-> o.Name, Route |-> routes]

\* MakeElaServiceIstioRoutes
MakeElaServiceIstioRoutes(o, routes) ==
  [OwnerReferences |-> {NewControllerRef(o)}, Spec |-> MakeElaServiceIstioSpec(o, routes)]

\* what another actor puts under a derived name
ForeignObject == [OwnerReferences |-> {}, Spec |-> "foreign"]
ForeignRouteRule ==
  [OwnerReferences |-> {},
   Spec |-> [Destination |-> "foreign", Route |-> << [Service |-> "foreign", Weight |-> 100] >>]]

(***************************************************************************)
(* Workers                                                                 *)
(***************************************************************************)
NoKey == << >>
\* a goroutine of the pool between two steps: pc is the call it makes next,
\* obj the item it holds, es the ElaService it read, routes the resolved
\* routes, err the error the sync handler is returning
Worker(pc, obj, es, routes, calls, err) ==
  [pc |-> pc, obj |-> obj, es |-> es, routes |-> routes, calls |-> calls, err |-> err]
IdleWorker(pc) == Worker(pc, NoKey, NoObject, << >>, << >>, nil)

ObjOf(key) == [Namespace |-> SplitMetaNamespaceKey(key).namespace,
               Name |-> SplitMetaNamespaceKey(key).name]

(***************************************************************************)
(* NewController: the state after construction                             *)
(***************************************************************************)
InitWith(observed) ==
  /\ lister = [o \in Objs |-> NoObject]
  /\ workqueue = NewRateLimitingQueue
  /\ services = [o \in Objs |-> NoObject]
  /\ ingresses = [o \in Objs |-> NoObject]
  /\ routeRules = [o \in Objs |-> NoObject]
  /\ templates = [t \in TemplateNames |-> "r1"]
  /\ events = [o \in Objs |-> [Normal |-> 0, Warning |-> 0]]
  /\ workers = [w \in Workers |-> IdleWorker("notStarted")]
  /\ run = [pc |-> "WaitForCacheSync", stopCh |-> FALSE, threadiness |-> 0]
  /\ env = [notifs |-> 0, changes |-> 0, observed |-> observed]
  /\ hist = [o \in Objs |-> [gen |-> 0, notifs |-> << >>, gets |-> 0, read |-> 0, done |-> 0]]

Init == InitWith(FALSE)

\* the same state, with the deliveries of each key being recorded in hist
InitObserved == InitWith(TRUE)

(***************************************************************************)
(* The informer: an add or update of an ElaService reaches the cache and   *)
(* then the registered handler (AddFunc, UpdateFunc)                       *)
(***************************************************************************)
\* enqueueElaService that drops the notification of an ElaService whose key
\* is being processed
enqueueElaService_DropInFlight(q, obj) ==
  IF MetaNamespaceKeyFunc(obj) \in q.processing THEN q
  ELSE QueueAddRateLimited(q, MetaNamespaceKeyFunc(obj))

\* enqueueElaService
enqueueElaService(q, obj) == QueueAddRateLimited(q, MetaNamespaceKeyFunc(obj))

\* the last two entries of a list
LastTwo(s) == IF Len(s) <= 2 THEN s ELSE SubSeq(s, Len(s) - 1, Len(s))

InFlight(o) == \E w \in Workers : workers[w].obj = MetaNamespaceKeyFunc(o)

Notify(o, traffic, max) ==
  /\ env.notifs < max
  /\ env' = [env EXCEPT !.notifs = @ + 1]
  /\ lister' = [lister EXCEPT ![o] =
        [Traffic |-> traffic, Generation |-> hist[o].gen + 1]]
  /\ workqueue' = enqueueElaService(workqueue, o)
  /\ hist' = [hist EXCEPT ![o].gen = @ + 1,
                          ![o].notifs = IF env.observed
                             THEN LastTwo(Append(@,
                                    [gets |-> hist[o].gets, inflight |-> InFlight(o)]))
                             ELSE @]
  /\ UNCHANGED << services, ingresses, routeRules, templates, events, workers, run >>

\* the ElaService is deleted: it leaves the cache, and no handler is
\* registered for deletions
Delete(o) ==
  /\ env.changes < MaxChanges
  /\ env' = [env EXCEPT !.changes = @ + 1]
  /\ lister[o] # NoObject
  /\ lister' = [lister EXCEPT ![o] = NoObject]
  /\ UNCHANGED << workqueue, services, ingresses, routeRules, templates, events,
                  workers, run, hist >>

\* the delaying queue: the delay of a waiting item is over
waitingLoop(item) ==
  /\ item \in workqueue.waitingForAdd
  /\ workqueue' = QueueAdd([workqueue EXCEPT !.waitingForAdd = @ \ {item}], item)
  /\ UNCHANGED << lister, services, ingresses, routeRules, templates, events,
                  workers, run, env, hist >>

\* the template controller stamps a new revision
StampLatest(t) ==
  /\ env.changes < MaxChanges
  /\ templates[t] = "r1"
  /\ templates' = [templates EXCEPT ![t] = "r2"]
  /\ env' = [env EXCEPT !.changes = @ + 1]
  /\ UNCHANGED << lister, workqueue, services, ingresses, routeRules, events,
                  workers, run, hist >>

\* the process-wide stop signal
Stop ==
  /\ ~run.stopCh
  /\ run' = [run EXCEPT !.stopCh = TRUE]
  /\ UNCHANGED << lister, workqueue, services, ingresses, routeRules, templates,
                  events, workers, env, hist >>

(***************************************************************************)
(* Run                                                                     *)
(***************************************************************************)
\* Run whose loop launches one worker more than threadiness
Run_StartWorkers_OneMore(threadiness) ==
  /\ run.pc = "WaitForCacheSync"
  /\ ~run.stopCh
  /\ run' = [run EXCEPT !.pc = "started", !.threadiness = threadiness]
  /\ workers' = [w \in Workers |->
        IdleWorker(IF w <= threadiness + 1 THEN "Until" ELSE "notStarted")]
  /\ UNCHANGED << lister, workqueue, services, ingresses, routeRules, templates,
                  events, env, hist >>

\* cache.WaitForCacheSync returned true: threadiness workers are launched
\* and Run blocks on stopCh
Run_StartWorkers(threadiness) ==
  /\ run.pc = "WaitForCacheSync"
  /\ ~run.stopCh
  /\ run' = [run EXCEPT !.pc = "started", !.threadiness = threadiness]
  /\ workers' = [w \in Workers |->
        IdleWorker(IF w <= threadiness THEN "Until" ELSE "notStarted")]
  /\ UNCHANGED << lister, workqueue, services, ingresses, routeRules, templates,
                  events, env, hist >>

\* Run that shuts the queue down after its wait on stopCh only, and not when
\* the caches have failed to sync
Run_Return_NoShutDownOnError ==
  /\ run.pc \in {"WaitForCacheSync", "started"}
  /\ run.stopCh
  /\ run' = [run EXCEPT !.pc = IF run.pc = "started" THEN "returned" ELSE "failed"]
  /\ workqueue' = IF run.pc = "started" THEN QueueShutDown(workqueue) ELSE workqueue
  /\ UNCHANGED << lister, services, ingresses, routeRules, templates, events,
                  workers, env, hist >>

\* Run returns, with an error when stopCh closed before the caches synced;
\* the deferred ShutDown runs
Run_Return ==
  /\ run.pc \in {"WaitForCacheSync", "started"}
  /\ run.stopCh
  /\ run' = [run EXCEPT !.pc = IF run.pc = "started" THEN "returned" ELSE "failed"]
  /\ workqueue' = QueueShutDown(workqueue)
  /\ UNCHANGED << lister, services, ingresses, routeRules, templates, events,
                  workers, env, hist >>

(***************************************************************************)
(* Route resolver                                                          *)
(***************************************************************************)
\* RevisionRoute
RevisionRoute(service, weight) == [Service |-> service, Weight |-> weight]

\* getRouteForTrafficTarget that gives every route the whole traffic instead
\* of the Percent of its target
getRouteForTrafficTarget_FullWeight(tt, ns, latest, fault) ==
  LET useTemplate == tt.RevisionTemplate # ""
      rtErr == IF ~useTemplate THEN nil
               ELSE IF fault = "template" THEN "ServerError"
               ELSE IF tt.RevisionTemplate \notin TemplateNames THEN "NotFound"
               ELSE nil
      revisionName == IF useTemplate /\ rtErr = nil
                      THEN latest[tt.RevisionTemplate] ELSE tt.Revision
      revErr == IF fault = "revision" THEN "ServerError"
                ELSE IF revisionName \notin RevisionNames THEN "NotFound"
                ELSE nil
      rtCall == IF useTemplate THEN << << "RevisionTemplates", tt.RevisionTemplate >> >>
                ELSE << >>
  IN  IF rtErr # nil
      THEN [route |-> [Service |-> "", Weight |-> 0], err |-> rtErr, calls |-> rtCall]
      ELSE [route |-> [Service |-> IF revErr # nil THEN ""
                                   ELSE RevisionServiceName(revisionName) \o "."
                                        \o GetElaNamespaceName(ns),
                       Weight |-> IF revErr # nil THEN 0 ELSE 100],
            err |-> revErr,
            calls |-> rtCall \o << << "Revisions", revisionName >> >>]

\* getRouteForTrafficTarget that uses the Revision field when it is set and
\* fetches the template only for a target without one
getRouteForTrafficTarget_RevisionFirst(tt, ns, latest, fault) ==
  LET useTemplate == tt.RevisionTemplate # "" /\ tt.Revision = ""
      rtErr == IF ~useTemplate THEN nil
               ELSE IF fault = "template" THEN "ServerError"
               ELSE IF tt.RevisionTemplate \notin TemplateNames THEN "NotFound"
               ELSE nil
      revisionName == IF useTemplate /\ rtErr = nil
                      THEN latest[tt.RevisionTemplate] ELSE tt.Revision
      revErr == IF fault = "revision" THEN "ServerError"
                ELSE IF revisionName \notin RevisionNames THEN "NotFound"
                ELSE nil
      rtCall == IF useTemplate THEN << << "RevisionTemplates", tt.RevisionTemplate >> >>
                ELSE << >>
  IN  IF rtErr # nil
      THEN [route |-> [Service |-> "", Weight |-> 0], err |-> rtErr, calls |-> rtCall]
      ELSE [route |-> [Service |-> IF revErr # nil THEN ""
                                   ELSE RevisionServiceName(revisionName) \o "."
                                        \o GetElaNamespaceName(ns),
                       Weight |-> IF revErr # nil THEN 0 ELSE tt.Percent],
            err |-> revErr,
            calls |-> rtCall \o << << "Revisions", revisionName >> >>]

\* getRouteForTrafficTarget that fetches the template but goes on with the
\* Revision field of a target that has one
getRouteForTrafficTarget_KeepRevision(tt, ns, latest, fault) ==
  LET useTemplate == tt.RevisionTemplate # ""
      rtErr == IF ~useTemplate THEN nil
               ELSE IF fault = "template" THEN "ServerError"
               ELSE IF tt.RevisionTemplate \notin TemplateNames THEN "NotFound"
               ELSE nil
      revisionName == IF useTemplate /\ rtErr = nil /\ tt.Revision = ""
                      THEN latest[tt.RevisionTemplate] ELSE tt.Revision
      revErr == IF fault = "revision" THEN "ServerError"
                ELSE IF revisionName \notin RevisionNames THEN "NotFound"
                ELSE nil
      rtCall == IF useTemplate THEN << << "RevisionTemplates", tt.RevisionTemplate >> >>
                ELSE << >>
  IN  IF rtErr # nil
      THEN [route |-> [Service |-> "", Weight |-> 0], err |-> rtErr, calls |-> rtCall]
      ELSE [route |-> [Service |-> IF revErr # nil THEN ""
                                   ELSE RevisionServiceName(revisionName) \o "."
                                        \o GetElaNamespaceName(ns),
                       Weight |-> IF revErr # nil THEN 0 ELSE tt.Percent],
            err |-> revErr,
            calls |-> rtCall \o << << "Revisions", revisionName >> >>]

\* getRouteForTrafficTarget; fault names the Get that the API server fails
\* ("template", "revision") or is "none".  calls lists the Gets it made.
getRouteForTrafficTarget(tt, ns, latest, fault) ==
  LET elaNS == GetElaNamespaceName(ns)
      useTemplate == tt.RevisionTemplate # ""
      rtErr == IF ~useTemplate THEN nil
               ELSE IF fault = "template" THEN "ServerError"
               ELSE IF tt.RevisionTemplate \notin TemplateNames THEN "NotFound"
               ELSE nil
      revisionName == IF useTemplate /\ rtErr = nil
                      THEN latest[tt.RevisionTemplate] ELSE tt.Revision
      revErr == IF fault = "revision" THEN "ServerError"
                ELSE IF revisionName \notin RevisionNames THEN "NotFound"
                ELSE nil
      rtCall == IF useTemplate THEN << << "RevisionTemplates", tt.RevisionTemplate >> >>
                ELSE << >>
  IN  IF rtErr # nil
      THEN [route |-> RevisionRoute("", 0), err |-> rtErr, calls |-> rtCall]
      ELSE IF revErr # nil
      THEN [route |-> RevisionRoute("", 0), err |-> revErr,
            calls |-> rtCall \o << << "Revisions", revisionName >> >>]
      ELSE [route |-> RevisionRoute(RevisionServiceName(revisionName) \o "." \o elaNS,
                                    tt.Percent),
            err |-> nil,
            calls |-> rtCall \o << << "Revisions", revisionName >> >>]

\* the loop of getRoutes that goes on with the next target when one target
\* does not resolve
RECURSIVE getRoutesLoop_SkipFailed(_, _, _, _, _, _, _)
getRoutesLoop_SkipFailed(traffic, ns, latest, i, ret, faultAt, fault) ==
  IF i > Len(traffic) THEN [routes |-> ret.routes, err |-> nil, calls |-> ret.calls]
  ELSE LET rr == getRouteForTrafficTarget(traffic[i], ns, latest,
                                          IF faultAt = i THEN fault ELSE "none")
       IN  getRoutesLoop_SkipFailed(traffic, ns, latest, i + 1,
              [routes |-> IF rr.err # nil THEN ret.routes ELSE Append(ret.routes, rr.route),
               calls |-> ret.calls \o rr.calls],
              faultAt, fault)

\* the loop of getRoutes from target i on, ret being the routes so far;
\* the API server fails the Get named by fault at target faultAt
RECURSIVE getRoutesLoop(_, _, _, _, _, _, _)
getRoutesLoop(traffic, ns, latest, i, ret, faultAt, fault) ==
  IF i > Len(traffic) THEN [routes |-> ret.routes, err |-> nil, calls |-> ret.calls]
  ELSE LET rr == getRouteForTrafficTarget(traffic[i], ns, latest,
                                          IF faultAt = i THEN fault ELSE "none")
       IN  IF rr.err # nil
           THEN [routes |-> << >>, err |-> rr.err, calls |-> ret.calls \o rr.calls]
           ELSE getRoutesLoop(traffic, ns, latest, i + 1,
                              [routes |-> Append(ret.routes, rr.route),
                               calls |-> ret.calls \o rr.calls],
                              faultAt, fault)

\* getRoutes
getRoutes(u, latest, faultAt, fault) ==
  getRoutesLoop(u.Traffic, u.Namespace, latest, 1, [routes |-> << >>, calls |-> << >>],
                faultAt, fault)

(***************************************************************************)
(* Worker pool: wait.Until(c.runWorker, time.Second, stopCh)               *)
(***************************************************************************)
\* the sync handler returns err to processNextWorkItem
Returning(w, err) == Worker("Return", workers[w].obj, workers[w].es, << >>, << >>, err)

\* c.recorder.Event(es, EventTypeNormal, SuccessSynced, ...) and return nil
Synced(w) ==
  /\ events' = [events EXCEPT ![ObjOf(workers[w].obj)].Normal = @ + 1]
  /\ workers' = [workers EXCEPT ![w] = Returning(w, nil)]

\* wait.Until that runs runWorker again whether stopCh is closed or not
Until_Forever(w) ==
  /\ workers[w].pc = "Until"
  /\ workers' = [workers EXCEPT ![w] = IdleWorker("Get")]
  /\ UNCHANGED << lister, workqueue, services, ingresses, routeRules, templates,
                  events, run, env, hist >>

\* wait.Until: runs runWorker again unless stopCh is closed
Until(w) ==
  /\ workers[w].pc = "Until"
  /\ workers' = [workers EXCEPT ![w] = IdleWorker(IF run.stopCh THEN "exited" ELSE "Get")]
  /\ UNCHANGED << lister, workqueue, services, ingresses, routeRules, templates,
                  events, run, env, hist >>

\* the worker that has got item: an item that is not a string is forgotten
\* and nil is returned for it, a string goes to the sync handler
Taken(item) ==
  IF IsString(item)
  THEN Worker("syncHandler", item, NoObject, << >>, << >>, nil)
  ELSE Worker("Return", item, NoObject, << >>, << >>, nil)

\* hist after the delivery of item to a worker
Delivered(item) ==
  [o \in Objs |->
     IF env.observed /\ IsString(item) /\ MetaNamespaceKeyFunc(o) = item
     THEN [hist[o] EXCEPT !.gets = @ + 1] ELSE hist[o]]

\* processNextWorkItem that calls Done as soon as it has the item instead
\* of deferring it until the sync handler has returned
processNextWorkItem_Get_DoneEarly(w) ==
  /\ workers[w].pc = "Get"
  /\ \/ /\ workqueue.queue # << >>
        /\ workqueue' = QueueDone(QueueGet(workqueue), Head(workqueue.queue))
        /\ workers' = [workers EXCEPT ![w] = Taken(Head(workqueue.queue))]
        /\ hist' = Delivered(Head(workqueue.queue))
     \/ /\ workqueue.queue = << >>
        /\ workqueue.shuttingDown
        /\ workers' = [workers EXCEPT ![w] = IdleWorker("Until")]
        /\ UNCHANGED << workqueue, hist >>
  /\ UNCHANGED << lister, services, ingresses, routeRules, templates, events, run, env >>

\* processNextWorkItem, c.workqueue.Get(): blocks while the queue is empty
\* and not shut down; shutdown makes runWorker return
processNextWorkItem_Get(w) ==
  /\ workers[w].pc = "Get"
  /\ \/ /\ workqueue.queue # << >>
        /\ workqueue' = QueueGet(workqueue)
        /\ workers' = [workers EXCEPT ![w] = Taken(Head(workqueue.queue))]
        /\ hist' = Delivered(Head(workqueue.queue))
     \/ /\ workqueue.queue = << >>
        /\ workqueue.shuttingDown
        /\ workers' = [workers EXCEPT ![w] = IdleWorker("Until")]
        /\ UNCHANGED << workqueue, hist >>
  /\ UNCHANGED << lister, services, ingresses, routeRules, templates, events, run, env >>

\* processNextWorkItem that does not call Forget
processNextWorkItem_Return_NoForget(w) ==
  /\ workers[w].pc = "Return"
  /\ workqueue' = QueueDone(workqueue, workers[w].obj)
  /\ workers' = [workers EXCEPT ![w] = IdleWorker("Get")]
  /\ hist' = [o \in Objs |->
        IF IsString(workers[w].obj) /\ MetaNamespaceKeyFunc(o) = workers[w].obj
        THEN [hist[o] EXCEPT !.done = hist[o].read] ELSE hist[o]]
  /\ UNCHANGED << lister, services, ingresses, routeRules, templates, events,
                  run, env >>

\* processNextWorkItem that returns false after a sync that failed, which
\* ends runWorker
processNextWorkItem_Return_StopOnError(w) ==
  /\ workers[w].pc = "Return"
  /\ workqueue' = IF workers[w].err = nil
                  THEN QueueDone(QueueForget(workqueue, workers[w].obj), workers[w].obj)
                  ELSE QueueDone(workqueue, workers[w].obj)
  /\ workers' = [workers EXCEPT ![w] =
                   IdleWorker(IF workers[w].err = nil THEN "Get" ELSE "exited")]
  /\ hist' = [o \in Objs |->
        IF IsString(workers[w].obj) /\ MetaNamespaceKeyFunc(o) = workers[w].obj
        THEN [hist[o] EXCEPT !.done = hist[o].read] ELSE hist[o]]
  /\ UNCHANGED << lister, services, ingresses, routeRules, templates, events,
                  run, env >>

\* processNextWorkItem that calls Done after a sync that succeeded only,
\* instead of deferring it
processNextWorkItem_Return_NoDoneOnError(w) ==
  /\ workers[w].pc = "Return"
  /\ workqueue' = IF workers[w].err = nil
                  THEN QueueDone(QueueForget(workqueue, workers[w].obj), workers[w].obj)
                  ELSE workqueue
  /\ workers' = [workers EXCEPT ![w] = IdleWorker("Get")]
  /\ hist' = [o \in Objs |->
        IF IsString(workers[w].obj) /\ MetaNamespaceKeyFunc(o) = workers[w].obj
        THEN [hist[o] EXCEPT !.done = hist[o].read] ELSE hist[o]]
  /\ UNCHANGED << lister, services, ingresses, routeRules, templates, events,
                  run, env >>

\* processNextWorkItem that calls Forget after a sync that failed too
processNextWorkItem_Return_ForgetOnError(w) ==
  /\ workers[w].pc = "Return"
  /\ workqueue' = QueueDone(QueueForget(workqueue, workers[w].obj), workers[w].obj)
  /\ workers' = [workers EXCEPT ![w] = IdleWorker("Get")]
  /\ hist' = [o \in Objs |->
        IF IsString(workers[w].obj) /\ MetaNamespaceKeyFunc(o) = workers[w].obj
        THEN [hist[o] EXCEPT !.done = hist[o].read] ELSE hist[o]]
  /\ UNCHANGED << lister, services, ingresses, routeRules, templates, events,
                  run, env >>

\* processNextWorkItem after syncHandler returned: Forget on success, the
\* error is only handed to runtime.HandleError; the deferred Done
processNextWorkItem_Return(w) ==
  /\ workers[w].pc = "Return"
  /\ workqueue' = IF workers[w].err = nil
                  THEN QueueDone(QueueForget(workqueue, workers[w].obj), workers[w].obj)
                  ELSE QueueDone(workqueue, workers[w].obj)
  /\ workers' = [workers EXCEPT ![w] = IdleWorker("Get")]
  /\ hist' = [o \in Objs |->
        IF IsString(workers[w].obj) /\ MetaNamespaceKeyFunc(o) = workers[w].obj
        THEN [hist[o] EXCEPT !.done = hist[o].read] ELSE hist[o]]
  /\ UNCHANGED << lister, services, ingresses, routeRules, templates, events,
                  run, env >>

(***************************************************************************)
(* Sync handler                                                            *)
(***************************************************************************)
\* syncHandler that returns the not-found error of the lister like any other
syncHandler_NotFoundIsError(w) ==
  /\ workers[w].pc = "syncHandler"
  /\ LET split == SplitMetaNamespaceKey(workers[w].obj)
         o == [Namespace |-> split.namespace, Name |-> split.name]
     IN  workers' = [workers EXCEPT ![w] =
           IF split.err # nil THEN Returning(w, nil)
           ELSE IF o \notin Objs \/ lister[o] = NoObject THEN Returning(w, "NotFound")
           ELSE Worker("createPlaceholderService", workers[w].obj,
                       [Namespace |-> o.Namespace, Name |-> o.Name,
                        Traffic |-> lister[o].Traffic,
                        Generation |-> lister[o].Generation],
                       << >>, << >>, nil)]
  /\ hist' = [o \in Objs |->
        IF MetaNamespaceKeyFunc(o) = workers[w].obj /\ env.observed
        THEN [hist[o] EXCEPT !.read = hist[o].gen] ELSE hist[o]]
  /\ UNCHANGED << lister, workqueue, services, ingresses, routeRules, templates,
                  events, run, env >>

\* syncHandler that returns the error of SplitMetaNamespaceKey
syncHandler_SplitErrorIsError(w) ==
  /\ workers[w].pc = "syncHandler"
  /\ LET split == SplitMetaNamespaceKey(workers[w].obj)
         o == [Namespace |-> split.namespace, Name |-> split.name]
     IN  workers' = [workers EXCEPT ![w] =
           IF split.err # nil THEN Returning(w, split.err)
           ELSE IF o \notin Objs \/ lister[o] = NoObject THEN Returning(w, nil)
           ELSE Worker("createPlaceholderService", workers[w].obj,
                       [Namespace |-> o.Namespace, Name |-> o.Name,
                        Traffic |-> lister[o].Traffic,
                        Generation |-> lister[o].Generation],
                       << >>, << >>, nil)]
  /\ hist' = [o \in Objs |->
        IF MetaNamespaceKeyFunc(o) = workers[w].obj /\ env.observed
        THEN [hist[o] EXCEPT !.read = hist[o].gen] ELSE hist[o]]
  /\ UNCHANGED << lister, workqueue, services, ingresses, routeRules, templates,
                  events, run, env >>

\* syncHandler up to the lister: a key that does not split and an
\* ElaService that is not in the cache both return nil
syncHandler(w) ==
  /\ workers[w].pc = "syncHandler"
  /\ LET split == SplitMetaNamespaceKey(workers[w].obj)
         o == [Namespace |-> split.namespace, Name |-> split.name]
     IN  workers' = [workers EXCEPT ![w] =
           IF split.err # nil \/ o \notin Objs \/ lister[o] = NoObject
           THEN Returning(w, nil)
           ELSE Worker("createPlaceholderService", workers[w].obj,
                       [Namespace |-> o.Namespace, Name |-> o.Name,
                        Traffic |-> lister[o].Traffic,
                        Generation |-> lister[o].Generation],
                       << >>, << >>, nil)]
  /\ hist' = [o \in Objs |->
        IF MetaNamespaceKeyFunc(o) = workers[w].obj /\ env.observed
        THEN [hist[o] EXCEPT !.read = hist[o].gen] ELSE hist[o]]
  /\ UNCHANGED << lister, workqueue, services, ingresses, routeRules, templates,
                  events, run, env >>

\* the position of worker w becomes pc
Goto(w, pc) == [workers[w] EXCEPT !.pc = pc]

\* createPlaceholderService that returns the already-exists error of Create
createPlaceholderService_ExistsIsError(w) ==
  /\ workers[w].pc = "createPlaceholderService"
  /\ LET o == ObjOf(workers[w].obj)
     IN  \E fault \in BOOLEAN :
           IF fault \/ services[o] # NoObject
           THEN /\ workers' = [workers EXCEPT ![w] =
                     Returning(w, IF fault THEN "ServerError" ELSE "AlreadyExists")]
                /\ UNCHANGED services
           ELSE /\ services' = [services EXCEPT ![o] = MakeElaServiceK8SService(o)]
                /\ workers' = [workers EXCEPT ![w] = Goto(w, "createOrUpdateIngress_Get")]
  /\ UNCHANGED << lister, workqueue, ingresses, routeRules, templates, events,
                  run, env, hist >>

\* createPlaceholderService after which the sync of an ElaService whose
\* placeholder service exists is taken to be done
createPlaceholderService_ExistsIsDone(w) ==
  /\ workers[w].pc = "createPlaceholderService"
  /\ LET o == ObjOf(workers[w].obj)
     IN  \E fault \in BOOLEAN :
           IF fault
           THEN /\ workers' = [workers EXCEPT ![w] = Returning(w, "ServerError")]
                /\ UNCHANGED << services, events >>
           ELSE IF services[o] # NoObject
           THEN /\ Synced(w)
                /\ UNCHANGED services
           ELSE /\ services' = [services EXCEPT ![o] = MakeElaServiceK8SService(o)]
                /\ workers' = [workers EXCEPT ![w] = Goto(w, "createOrUpdateIngress_Get")]
                /\ UNCHANGED events
  /\ UNCHANGED << lister, workqueue, ingresses, routeRules, templates,
                  run, env, hist >>

\* createPlaceholderService whose error does not end the sync
createPlaceholderService_IgnoreError(w) ==
  /\ workers[w].pc = "createPlaceholderService"
  /\ LET o == ObjOf(workers[w].obj)
     IN  \E fault \in BOOLEAN :
           /\ services' = IF fault \/ services[o] # NoObject
                          THEN services
                          ELSE [services EXCEPT ![o] = MakeElaServiceK8SService(o)]
           /\ workers' = [workers EXCEPT ![w] = Goto(w, "createOrUpdateIngress_Get")]
  /\ UNCHANGED << lister, workqueue, ingresses, routeRules, templates, events,
                  run, env, hist >>

\* createPlaceholderService: sc.Create; already-exists is not an error
createPlaceholderService(w) ==
  /\ workers[w].pc = "createPlaceholderService"
  /\ LET o == ObjOf(workers[w].obj)
     IN  \E fault \in BOOLEAN :
           IF fault
           THEN /\ workers' = [workers EXCEPT ![w] = Returning(w, "ServerError")]
                /\ UNCHANGED services
           ELSE /\ services' = IF services[o] = NoObject
                               THEN [services EXCEPT ![o] = MakeElaServiceK8SService(o)]
                               ELSE services
                /\ workers' = [workers EXCEPT ![w] = Goto(w, "createOrUpdateIngress_Get")]
  /\ UNCHANGED << lister, workqueue, ingresses, routeRules, templates, events,
                  run, env, hist >>

\* createOrUpdateIngress that updates the ingress it has found
createOrUpdateIngress_Get_Overwrite(w) ==
  /\ workers[w].pc = "createOrUpdateIngress_Get"
  /\ LET o == ObjOf(workers[w].obj)
     IN  \E fault \in BOOLEAN :
           /\ workers' = [workers EXCEPT ![w] =
                IF fault THEN Returning(w, "ServerError")
                ELSE IF ingresses[o] = NoObject THEN Goto(w, "createOrUpdateIngress_Create")
                ELSE Goto(w, "getRoutes")]
           /\ ingresses' = IF fault \/ ingresses[o] = NoObject THEN ingresses
                           ELSE [ingresses EXCEPT ![o] = MakeElaServiceIngress(o)]
  /\ UNCHANGED << lister, workqueue, services, routeRules, templates,
                  events, run, env, hist >>

\* createOrUpdateIngress, ic.Get
createOrUpdateIngress_Get(w) ==
  /\ workers[w].pc = "createOrUpdateIngress_Get"
  /\ LET o == ObjOf(workers[w].obj)
     IN  \E fault \in BOOLEAN :
           workers' = [workers EXCEPT ![w] =
             IF fault THEN Returning(w, "ServerError")
             ELSE IF ingresses[o] = NoObject THEN Goto(w, "createOrUpdateIngress_Create")
             ELSE Goto(w, "getRoutes")]
  /\ UNCHANGED << lister, workqueue, services, ingresses, routeRules, templates,
                  events, run, env, hist >>

\* createOrUpdateIngress whose already-exists error of Create ends the sync
createOrUpdateIngress_Create_ExistsIsError(w) ==
  /\ workers[w].pc = "createOrUpdateIngress_Create"
  /\ LET o == ObjOf(workers[w].obj)
     IN  \E fault \in BOOLEAN :
           LET createErr == IF fault THEN "ServerError"
                            ELSE IF ingresses[o] # NoObject THEN "AlreadyExists"
                            ELSE nil
           IN  /\ ingresses' = IF createErr = nil
                               THEN [ingresses EXCEPT ![o] = MakeElaServiceIngress(o)]
                               ELSE ingresses
               /\ workers' = [workers EXCEPT ![w] =
                    IF createErr # nil
                    THEN Returning(w, createErr)
                    ELSE Goto(w, "getRoutes")]
  /\ UNCHANGED << lister, workqueue, services, routeRules, templates, events,
                  run, env, hist >>

\* createOrUpdateIngress, ic.Create; syncHandler goes on when the error is
\* already-exists
createOrUpdateIngress_Create(w) ==
  /\ workers[w].pc = "createOrUpdateIngress_Create"
  /\ LET o == ObjOf(workers[w].obj)
     IN  \E fault \in BOOLEAN :
           LET createErr == IF fault THEN "ServerError"
                            ELSE IF ingresses[o] # NoObject THEN "AlreadyExists"
                            ELSE nil
           IN  /\ ingresses' = IF createErr = nil
                               THEN [ingresses EXCEPT ![o] = MakeElaServiceIngress(o)]
                               ELSE ingresses
               /\ workers' = [workers EXCEPT ![w] =
                    IF createErr \notin {nil, "AlreadyExists"}
                    THEN Returning(w, createErr)
                    ELSE Goto(w, "getRoutes")]
  /\ UNCHANGED << lister, workqueue, services, routeRules, templates, events,
                  run, env, hist >>

\* createOrUpdateRoutes that returns an error when the list of routes is
\* empty
createOrUpdateRoutes_getRoutes_EmptyIsError(w) ==
  /\ workers[w].pc = "getRoutes"
  /\ \E faultAt \in 0..Len(workers[w].es.Traffic), fault \in {"template", "revision"} :
       LET res == getRoutes(workers[w].es, templates, faultAt, fault)
       IN  workers' = [workers EXCEPT ![w] =
             IF res.err # nil
             THEN [Returning(w, res.err) EXCEPT !.calls = res.calls]
             ELSE IF Len(res.routes) = 0
             THEN [Returning(w, "NoRoutes") EXCEPT !.calls = res.calls]
             ELSE [workers[w] EXCEPT !.pc = "createOrUpdateRoutes_Get",
                                     !.routes = res.routes, !.calls = res.calls]]
  /\ UNCHANGED << lister, workqueue, services, ingresses, routeRules, templates,
                  events, run, env, hist >>

\* createOrUpdateRoutes without the check for an empty list of routes
createOrUpdateRoutes_getRoutes_NoEmptyCheck(w) ==
  /\ workers[w].pc = "getRoutes"
  /\ \E faultAt \in 0..Len(workers[w].es.Traffic), fault \in {"template", "revision"} :
       LET res == getRoutes(workers[w].es, templates, faultAt, fault)
       IN  workers' = [workers EXCEPT ![w] =
             IF res.err # nil
             THEN [Returning(w, res.err) EXCEPT !.calls = res.calls]
             ELSE [workers[w] EXCEPT !.pc = "createOrUpdateRoutes_Get",
                                     !.routes = res.routes, !.calls = res.calls]]
  /\ UNCHANGED << lister, workqueue, services, ingresses, routeRules, templates,
                  events, run, env, hist >>

\* createOrUpdateRoutes up to the empty-routes check: c.getRoutes(u), whose
\* Gets the API server may fail at one target
createOrUpdateRoutes_getRoutes(w) ==
  /\ workers[w].pc = "getRoutes"
  /\ \E faultAt \in 0..Len(workers[w].es.Traffic), fault \in {"template", "revision"} :
       LET res == getRoutes(workers[w].es, templates, faultAt, fault)
       IN  IF res.err # nil
           THEN /\ workers' = [workers EXCEPT ![w] =
                     [Returning(w, res.err) EXCEPT !.calls = res.calls]]
                /\ UNCHANGED events
           ELSE IF Len(res.routes) = 0
           THEN Synced(w)
           ELSE /\ workers' = [workers EXCEPT ![w] =
                     [workers[w] EXCEPT !.pc = "createOrUpdateRoutes_Get",
                                        !.routes = res.routes, !.calls = res.calls]]
                /\ UNCHANGED events
  /\ UNCHANGED << lister, workqueue, services, ingresses, routeRules, templates,
                  run, env, hist >>

\* createOrUpdateRoutes, routeClient.Get
createOrUpdateRoutes_Get(w) ==
  /\ workers[w].pc = "createOrUpdateRoutes_Get"
  /\ LET o == ObjOf(workers[w].obj)
     IN  \E fault \in BOOLEAN :
           workers' = [workers EXCEPT ![w] =
             IF fault THEN Returning(w, "ServerError")
             ELSE IF routeRules[o] = NoObject THEN Goto(w, "createOrUpdateRoutes_Create")
             ELSE Goto(w, "createOrUpdateRoutes_Update")]
  /\ UNCHANGED << lister, workqueue, services, ingresses, routeRules, templates,
                  events, run, env, hist >>

\* createOrUpdateRoutes after whose Create the event is recorded whatever
\* the Create has answered
createOrUpdateRoutes_Create_EventAnyway(w) ==
  /\ workers[w].pc = "createOrUpdateRoutes_Create"
  /\ LET o == ObjOf(workers[w].obj)
     IN  \E fault \in BOOLEAN :
           LET createErr == IF fault THEN "ServerError"
                            ELSE IF routeRules[o] # NoObject THEN "AlreadyExists"
                            ELSE nil
           IN  /\ routeRules' = IF createErr # nil THEN routeRules
                                ELSE [routeRules EXCEPT ![o] =
                                        MakeElaServiceIstioRoutes(o, workers[w].routes)]
               /\ events' = [events EXCEPT ![o].Normal = @ + 1]
               /\ workers' = [workers EXCEPT ![w] = Returning(w, createErr)]
  /\ UNCHANGED << lister, workqueue, services, ingresses, templates, run, env, hist >>

\* createOrUpdateRoutes, routeClient.Create of MakeElaServiceIstioRoutes;
\* createErr is returned as it is
createOrUpdateRoutes_Create(w) ==
  /\ workers[w].pc = "createOrUpdateRoutes_Create"
  /\ LET o == ObjOf(workers[w].obj)
     IN  \E fault \in BOOLEAN :
           LET createErr == IF fault THEN "ServerError"
                            ELSE IF routeRules[o] # NoObject THEN "AlreadyExists"
                            ELSE nil
           IN  IF createErr # nil
               THEN /\ workers' = [workers EXCEPT ![w] = Returning(w, createErr)]
                    /\ UNCHANGED << routeRules, events >>
               ELSE /\ routeRules' = [routeRules EXCEPT ![o] =
                         MakeElaServiceIstioRoutes(o, workers[w].routes)]
                    /\ Synced(w)
  /\ UNCHANGED << lister, workqueue, services, ingresses, templates, run, env, hist >>

\* createOrUpdateRoutes that adds the routes to those the route rules have
createOrUpdateRoutes_Update_Merge(w) ==
  /\ workers[w].pc = "createOrUpdateRoutes_Update"
  /\ LET o == ObjOf(workers[w].obj)
     IN  \E fault \in BOOLEAN :
           IF fault \/ routeRules[o] = NoObject
           THEN /\ workers' = [workers EXCEPT ![w] = Returning(w, "ServerError")]
                /\ UNCHANGED << routeRules, events >>
           ELSE /\ routeRules' = [routeRules EXCEPT ![o].Spec.Route = @ \o workers[w].routes]
                /\ Synced(w)
  /\ UNCHANGED << lister, workqueue, services, ingresses, templates, run, env, hist >>

\* createOrUpdateRoutes that replaces the route rules by deleting them and
\* creating them again
createOrUpdateRoutes_Update_Recreate(w) ==
  /\ workers[w].pc = "createOrUpdateRoutes_Update"
  /\ LET o == ObjOf(workers[w].obj)
     IN  \E fault \in BOOLEAN :
           IF fault \/ routeRules[o] = NoObject
           THEN /\ workers' = [workers EXCEPT ![w] = Returning(w, "ServerError")]
                /\ routeRules' = [routeRules EXCEPT ![o] = NoObject]
                /\ UNCHANGED events
           ELSE /\ routeRules' = [routeRules EXCEPT ![o] =
                         MakeElaServiceIstioRoutes(o, workers[w].routes)]
                /\ Synced(w)
  /\ UNCHANGED << lister, workqueue, services, ingresses, templates, run, env, hist >>

\* createOrUpdateRoutes, routeClient.Update of the fetched object with its
\* Spec replaced by MakeElaServiceIstioSpec
createOrUpdateRoutes_Update(w) ==
  /\ workers[w].pc = "createOrUpdateRoutes_Update"
  /\ LET o == ObjOf(workers[w].obj)
     IN  \E fault \in BOOLEAN :
           IF fault \/ routeRules[o] = NoObject
           THEN /\ workers' = [workers EXCEPT ![w] = Returning(w, "ServerError")]
                /\ UNCHANGED << routeRules, events >>
           ELSE /\ routeRules' = [routeRules EXCEPT ![o].Spec =
                         MakeElaServiceIstioSpec(o, workers[w].routes)]
                /\ Synced(w)
  /\ UNCHANGED << lister, workqueue, services, ingresses, templates, run, env, hist >>

(***************************************************************************)
(* Another actor creates an object under one of the derived names          *)
(***************************************************************************)
ExternalCreate(kind, o) ==
  /\ env.changes < MaxChanges
  /\ env' = [env EXCEPT !.changes = @ + 1]
  /\ \/ /\ kind = "Service" /\ services[o] = NoObject
        /\ services' = [services EXCEPT ![o] = ForeignObject]
        /\ UNCHANGED << ingresses, routeRules >>
     \/ /\ kind = "Ingress" /\ ingresses[o] = NoObject
        /\ ingresses' = [ingresses EXCEPT ![o] = ForeignObject]
        /\ UNCHANGED << services, routeRules >>
     \/ /\ kind = "RouteRule" /\ routeRules[o] = NoObject
        /\ routeRules' = [routeRules EXCEPT ![o] = ForeignRouteRule]
        /\ UNCHANGED << services, ingresses >>
  /\ UNCHANGED << lister, workqueue, templates, events, workers, run, hist >>

(***************************************************************************)
(* An item reaches the queue by another way than the informer's handlers:  *)
(* the queue takes any interface{} and processNextWorkItem and syncHandler *)
(* both provide for an item that is not a key                              *)
(***************************************************************************)
AddItem(item) ==
  /\ env.changes < MaxChanges
  /\ env' = [env EXCEPT !.changes = @ + 1]
  /\ workqueue' = QueueAdd(workqueue, item)
  /\ UNCHANGED << lister, services, ingresses, routeRules, templates, events,
                  workers, run, hist >>

(***************************************************************************)
(* Specification                                                           *)
(***************************************************************************)
WorkerStep(w) ==
  \/ Until(w)
  \/ processNextWorkItem_Get(w)
  \/ syncHandler(w)
  \/ createPlaceholderService(w)
  \/ createOrUpdateIngress_Get(w)
  \/ createOrUpdateIngress_Create(w)
  \/ createOrUpdateRoutes_getRoutes(w)
  \/ createOrUpdateRoutes_Get(w)
  \/ createOrUpdateRoutes_Create(w)
  \/ createOrUpdateRoutes_Update(w)
  \/ processNextWorkItem_Return(w)

\* The controller with a pool of up to Threadiness workers and all the
\* ElaServices of the namespace, against an API server whose calls may fail
Next ==
  \/ \E o \in Objs : \E traffic \in RolloutsOf(o.Name) : Notify(o, traffic, MaxNotifs)
  \/ \E item \in Keys : waitingLoop(item)
  \/ \E threadiness \in 1..Threadiness : Run_StartWorkers(threadiness)
  \/ \E w \in Workers : WorkerStep(w)

Spec == Init /\ [][Next]_vars

\* The controller with one worker and one ElaService, in a cluster where the
\* template controller and other actors are at work too
NextSync ==
  \/ \E traffic \in Rollouts : Notify(ObjA, traffic, MaxSyncNotifs)
  \/ Delete(ObjA)
  \/ waitingLoop(MetaNamespaceKeyFunc(ObjA))
  \/ \E t \in TemplateNames : StampLatest(t)
  \/ \E kind \in {"Service", "Ingress", "RouteRule"} : ExternalCreate(kind, ObjA)
  \/ Run_StartWorkers(1)
  \/ WorkerStep(1)

SpecSync == Init /\ [][NextSync]_vars

\* The controller with its pool of workers and one ElaService, until and
\* after the stop signal
NextRun ==
  \/ \E traffic \in {RolloutSplit} : Notify(ObjA, traffic, MaxRunNotifs)
  \/ Delete(ObjA)
  \/ waitingLoop(MetaNamespaceKeyFunc(ObjA))
  \/ Stop
  \/ Run_StartWorkers(Threadiness)
  \/ Run_Return
  \/ \E w \in Workers : WorkerStep(w)

SpecRun == Init /\ [][NextRun]_vars

\* The pool of workers and one ElaService that is updated in bursts
NextBurst ==
  \/ Notify(ObjA, RolloutSplit, MaxBurstNotifs)
  \/ waitingLoop(MetaNamespaceKeyFunc(ObjA))
  \/ Run_StartWorkers(Threadiness)
  \/ \E w \in Workers : WorkerStep(w)

SpecBurst == InitObserved /\ [][NextBurst]_vars

\* The pool of workers and one ElaService under fair scheduling: the caches
\* sync, every delay ends, and every worker that can take a step takes one
NextLive ==
  \/ Notify(ObjA, RolloutSplit, MaxLiveNotifs)
  \/ waitingLoop(MetaNamespaceKeyFunc(ObjA))
  \/ Run_StartWorkers(Threadiness)
  \/ \E w \in Workers : WorkerStep(w)

SpecLive ==
  /\ InitObserved /\ [][NextLive]_vars
  /\ WF_vars(Run_StartWorkers(Threadiness))
  /\ WF_vars(waitingLoop(MetaNamespaceKeyFunc(ObjA)))
  /\ \A w \in Workers : WF_vars(WorkerStep(w))

\* The controller with its pool of workers and one ElaService around the stop
\* signal, under fair scheduling: Run goes on when stopCh is closed, and
\* every worker that can take a step takes one
NextStop ==
  \/ Notify(ObjA, RolloutSplit, MaxStopNotifs)
  \/ waitingLoop(MetaNamespaceKeyFunc(ObjA))
  \/ Stop
  \/ Run_StartWorkers(Threadiness)
  \/ Run_Return
  \/ \E w \in Workers : WorkerStep(w)

SpecStop ==
  /\ Init /\ [][NextStop]_vars
  /\ WF_vars(Run_Return)
  /\ \A w \in Workers : WF_vars(WorkerStep(w))

\* The pool of workers, one ElaService, and a queue that is also given
\* items that are not keys
NextItems ==
  \/ Notify(ObjA, RolloutSplit, MaxItemNotifs)
  \/ \E item \in {MalformedKey, NotAString} : AddItem(item)
  \/ \E item \in Items : waitingLoop(item)
  \/ Run_StartWorkers(Threadiness)
  \/ \E w \in Workers : WorkerStep(w)

SpecItems == Init /\ [][NextItems]_vars

TypeOK ==
  /\ workqueue.dirty \subseteq Items
  /\ workqueue.processing \subseteq Items
  /\ \A w \in Workers : workers[w].obj \in Items \cup {NoKey}

(***************************************************************************)
(* Properties                                                              *)
(***************************************************************************)
\* the step is one of worker w
StepOf(w) == workers'[w] # workers[w]

\* worker w is between Get and Done with an item
Holds(w) == workers[w].obj # NoKey

\* the items of the queue
Queued == { workqueue.queue[i] : i \in 1..Len(workqueue.queue) }

\* C1: when the sync handler has returned an error for a key, the worker
\* re-enqueues the key with AddRateLimited (the requeue is counted and the
\* key waits for its back-off delay) and does not call Forget.
C1_FailedSyncIsRequeued ==
  [][\A w \in Workers :
       (workers[w].pc = "Return" /\ workers[w].err # nil /\ StepOf(w))
       => /\ workqueue'.failures[workers[w].obj] = workqueue.failures[workers[w].obj] + 1
          /\ workers[w].obj \in workqueue'.waitingForAdd]_vars

\* C2: no key is held by two workers at once, and a key that is being
\* processed is not in the queue for another worker to get: a key added
\* while it is in flight waits in the dirty set until Done.
C2_OneWorkerPerKey ==
  /\ \A w1, w2 \in Workers :
       (w1 # w2 /\ Holds(w1)) => workers[w1].obj # workers[w2].obj
  /\ \A w \in Workers : Holds(w) => workers[w].obj \notin Queued
  /\ workqueue.processing = { workers[w].obj : w \in { x \in Workers : Holds(x) } }

\* a key was added again while a worker holds it, and another worker is
\* waiting in Get
C2_Witness ==
  \E w1, w2 \in Workers :
    /\ Holds(w1) /\ workers[w1].obj \in workqueue.dirty
    /\ workers[w2].pc = "Get"

\* the last two notifications of o both arrived while one and the same sync
\* of its key was in flight, and none has arrived since
BurstInFlight(o) ==
  /\ Len(hist[o].notifs) = 2
  /\ hist[o].notifs[1].inflight /\ hist[o].notifs[2].inflight
  /\ hist[o].notifs[1].gets = hist[o].notifs[2].gets

\* the number of deliveries of the key of o since its last notification
GetsSince(o) == hist[o].gets - hist[o].notifs[Len(hist[o].notifs)].gets

\* C3: after two notifications that arrived during one in-flight sync of a
\* key, the key is delivered to a worker once more and not twice, and that
\* sync reads the later spec.
C3_ExactlyOneMoreSync ==
  \A o \in Objs :
    BurstInFlight(o) =>
      /\ GetsSince(o) <= 1
      /\ \A w \in Workers :
           (workers[w].obj = MetaNamespaceKeyFunc(o) /\ GetsSince(o) >= 1
              /\ workers[w].es # NoObject)
           => workers[w].es.Generation = hist[o].gen

\* C4: under fair scheduling and with no shutdown, every notification of an
\* ElaService is followed by a completed sync of its key that read the cache
\* at or after the notification.
C4_NotificationLeadsToSync ==
  \A g \in 1..MaxLiveNotifs :
    (hist[ObjA].gen = g) ~> (hist[ObjA].done >= g)

\* a notification arrived while its key was in flight, and a sync that read
\* the cache after it has completed
C4_Witness ==
  /\ hist[ObjA].notifs # << >>
  /\ hist[ObjA].notifs[Len(hist[ObjA].notifs)].inflight
  /\ hist[ObjA].done = hist[ObjA].gen

\* C5: a sync that does not find the ElaService of its key in the lister
\* returns nil without touching a dependent object or recording an event,
\* and the worker then forgets the key and does not enqueue it again.
C5_NotFoundIsDropped ==
  [][\A w \in Workers :
       /\ (workers[w].pc = "syncHandler" /\ StepOf(w)
             /\ lister[ObjOf(workers[w].obj)] = NoObject)
          => /\ workers'[w].pc = "Return"
             /\ workers'[w].err = nil
             /\ workers'[w].es = NoObject
             /\ UNCHANGED << services, ingresses, routeRules, events >>
       /\ (workers[w].pc = "Return" /\ workers[w].es = NoObject /\ StepOf(w))
          => /\ workqueue'.failures[workers[w].obj] = 0
             /\ workqueue'.waitingForAdd = workqueue.waitingForAdd
             /\ workers[w].obj \notin workqueue'.processing
             /\ (workers[w].obj \in workqueue'.dirty => workers[w].obj \in workqueue.dirty)
             /\ UNCHANGED << services, ingresses, routeRules, events >>]_vars

\* a sync has just returned nil for a key whose ElaService is not in the lister
C5_Witness ==
  \E w \in Workers :
    /\ workers[w].pc = "Return" /\ workers[w].es = NoObject /\ workers[w].err = nil
    /\ lister[ObjOf(workers[w].obj)] = NoObject
    /\ hist[ObjOf(workers[w].obj)].gen > 0

\* the routes of the rollout of o as the cluster is now
DesiredRoutes(o) ==
  getRoutes([Namespace |-> o.Namespace, Name |-> o.Name, Traffic |-> lister[o].Traffic],
            templates, 0, "none")

\* the three dependent objects of o are what a sync of its current spec makes
Converged(o) ==
  /\ lister[o] # NoObject
  /\ services[o] = MakeElaServiceK8SService(o)
  /\ ingresses[o] = MakeElaServiceIngress(o)
  /\ DesiredRoutes(o).err = nil
  /\ DesiredRoutes(o).routes # << >>
       => routeRules[o] = MakeElaServiceIstioRoutes(o, DesiredRoutes(o).routes)

\* worker w is syncing a converged ElaService whose spec and revisions are
\* those it has read
SyncOfConverged(w) ==
  /\ Holds(w)
  /\ workers[w].pc # "syncHandler"
  /\ workers[w].es # NoObject
  /\ Converged(ObjOf(workers[w].obj))
  /\ workers[w].es.Traffic = lister[ObjOf(workers[w].obj)].Traffic
  /\ workers[w].routes # << >> => workers[w].routes = DesiredRoutes(ObjOf(workers[w].obj)).routes

\* C6: a sync of an ElaService whose dependent objects already match its
\* spec changes none of the three, and it does not return an error of its
\* own (it fails only when a call to the API server fails).
C6_SyncIsIdempotent ==
  [][\A w \in Workers :
       (SyncOfConverged(w) /\ StepOf(w))
       => /\ UNCHANGED << services, ingresses, routeRules >>
          /\ workers'[w].err \in {nil, "ServerError"}]_vars

\* a sync of a converged ElaService is about to write the route rules again
C6_Witness ==
  \E w \in Workers :
    /\ SyncOfConverged(w)
    /\ workers[w].pc = "createOrUpdateRoutes_Update"
    /\ events[ObjOf(workers[w].obj)].Normal >= 1

\* worker w takes the step that resolves the routes
ResolveStep(w) == workers[w].pc = "getRoutes" /\ StepOf(w)

IsRevisionCall(c) == c[1] = "Revisions"
IsTemplateCall(c) == c[1] = "RevisionTemplates"

\* C7: when all N targets resolve, there are N routes in the order of the
\* targets, route i has the Percent of target i as its weight and the
\* service name of the i-th revision fetched joined with the suffix of the
\* namespace as its service.
C7_RoutesFollowTargets ==
  [][\A w \in Workers :
       (ResolveStep(w) /\ workers'[w].err = nil)
       => LET traffic == workers[w].es.Traffic
              routes == IF workers'[w].pc = "Return" THEN << >> ELSE workers'[w].routes
              revs == SelectSeq(workers'[w].calls, IsRevisionCall)
          IN  /\ Len(routes) = Len(traffic)
              /\ \A i \in 1..Len(traffic) :
                   /\ routes[i].Weight = traffic[i].Percent
                   /\ routes[i].Service =
                        RevisionServiceName(revs[i][2]) \o "."
                          \o GetElaNamespaceName(workers[w].es.Namespace)]_vars

\* three targets with different percents have been resolved
C7_Witness ==
  \E w \in Workers :
    /\ workers[w].pc = "createOrUpdateRoutes_Get"
    /\ Len(workers[w].routes) = 3
    /\ workers[w].routes[1].Weight # workers[w].routes[2].Weight
    /\ workers[w].routes[1].Service # workers[w].routes[3].Service

\* the Gets the resolver is to make for the targets, in order
RECURSIVE ExpectedCalls(_, _)
ExpectedCalls(traffic, latest) ==
  IF traffic = << >> THEN << >>
  ELSE LET tt == Head(traffic)
       IN  (IF tt.RevisionTemplate # ""
            THEN << << "RevisionTemplates", tt.RevisionTemplate >>,
                    << "Revisions", latest[tt.RevisionTemplate] >> >>
            ELSE << << "Revisions", tt.Revision >> >>)
           \o ExpectedCalls(Tail(traffic), latest)

IsPrefix(s, t) == Len(s) <= Len(t) /\ SubSeq(t, 1, Len(s)) = s

\* C8: for a target with a RevisionTemplate the resolver fetches the template
\* and then the revision its Latest names at that moment; for a target with
\* only a Revision it fetches that revision and no template; the route's
\* service is that of the revision chosen so.
C8_TemplateOrRevision ==
  [][\A w \in Workers :
       ResolveStep(w)
       => LET traffic == workers[w].es.Traffic
              expected == ExpectedCalls(traffic, templates)
          IN  /\ IsPrefix(workers'[w].calls, expected)
              /\ workers'[w].err = nil => workers'[w].calls = expected
              /\ workers'[w].pc = "createOrUpdateRoutes_Get"
                 => \A i \in 1..Len(traffic) :
                      workers'[w].routes[i].Service =
                        RevisionServiceName(
                          IF traffic[i].RevisionTemplate # ""
                          THEN templates[traffic[i].RevisionTemplate]
                          ELSE traffic[i].Revision)
                        \o "." \o GetElaNamespaceName(workers[w].es.Namespace)]_vars

\* a rollout with a target that names a template, whose Latest is not the
\* revision the target names, and a target that names only a revision has
\* been resolved
C8_Witness ==
  \E w \in Workers :
    /\ workers[w].pc = "createOrUpdateRoutes_Get"
    /\ \E i, j \in 1..Len(workers[w].es.Traffic) :
         /\ workers[w].es.Traffic[i].RevisionTemplate # ""
         /\ workers[w].routes[i].Service #
              RevisionServiceName(workers[w].es.Traffic[i].Revision) \o "."
                \o GetElaNamespaceName(workers[w].es.Namespace)
         /\ workers[w].es.Traffic[j].RevisionTemplate = ""

\* some target of the rollout names a template or a revision that does not exist
Unresolvable(traffic, latest) ==
  \E i \in 1..Len(traffic) :
    \/ traffic[i].RevisionTemplate # "" /\ traffic[i].RevisionTemplate \notin TemplateNames
    \/ traffic[i].RevisionTemplate # "" /\ traffic[i].RevisionTemplate \in TemplateNames
         /\ latest[traffic[i].RevisionTemplate] \notin RevisionNames
    \/ traffic[i].RevisionTemplate = "" /\ traffic[i].Revision \notin RevisionNames

\* C9: when the template or the revision of one target cannot be fetched,
\* route resolution returns an error and no routes, the sync returns that
\* error without creating or updating the route rules, and a route rule that
\* is written has a route for every target.
C9_ResolutionFailureAborts ==
  [][\A w \in Workers :
       /\ ResolveStep(w)
          => /\ Unresolvable(workers[w].es.Traffic, templates) => workers'[w].err # nil
             /\ workers'[w].err # nil
                => /\ workers'[w].pc = "Return"
                   /\ workers'[w].routes = << >>
                   /\ UNCHANGED << routeRules, events >>
       /\ (StepOf(w) /\ Holds(w)
             /\ routeRules'[ObjOf(workers[w].obj)] # routeRules[ObjOf(workers[w].obj)])
          => Len(routeRules'[ObjOf(workers[w].obj)].Spec.Route) = Len(workers[w].es.Traffic)]_vars

\* route resolution has failed at the second target, after the first resolved
C9_Witness ==
  \E w \in Workers :
    /\ workers[w].pc = "Return" /\ workers[w].err # nil
    /\ Len(workers[w].calls) = 2
    /\ Len(workers[w].es.Traffic) = 2

\* C10: when route resolution fails, the placeholder service and the ingress
\* of the ElaService stay in place, its route rules stay as they are, and
\* the sync returns the error and is retried.
C10_ResolutionFailureKeepsAndRetries ==
  [][\A w \in Workers :
       /\ (ResolveStep(w) /\ workers'[w].err # nil)
          => /\ UNCHANGED << services, ingresses, routeRules >>
             /\ services[ObjOf(workers[w].obj)] # NoObject
             /\ ingresses[ObjOf(workers[w].obj)] # NoObject
             /\ workers'[w].pc = "Return"
       /\ (workers[w].pc = "Return" /\ workers[w].err # nil /\ workers[w].calls # << >>
             /\ StepOf(w))
          => workers[w].obj \in workqueue'.waitingForAdd \cup workqueue'.dirty]_vars

\* the part of C10 that is about the dependent objects
C10_ResolutionFailureKeeps ==
  [][\A w \in Workers :
       (ResolveStep(w) /\ workers'[w].err # nil)
       => /\ UNCHANGED << services, ingresses, routeRules >>
          /\ services[ObjOf(workers[w].obj)] # NoObject
          /\ ingresses[ObjOf(workers[w].obj)] # NoObject
          /\ workers'[w].pc = "Return"]_vars

\* the place of a position in the sync of one key
Rank(pc) ==
  CASE pc = "syncHandler" -> 0
    [] pc = "createPlaceholderService" -> 1
    [] pc = "createOrUpdateIngress_Get" -> 2
    [] pc = "createOrUpdateIngress_Create" -> 3
    [] pc = "getRoutes" -> 4
    [] pc = "createOrUpdateRoutes_Get" -> 5
    [] pc = "createOrUpdateRoutes_Create" -> 6
    [] pc = "createOrUpdateRoutes_Update" -> 6
    [] pc = "Return" -> 7
    [] OTHER -> 8

\* worker w takes a step of the sync of the key it holds
SyncStep(w) == Holds(w) /\ StepOf(w) /\ workers[w].pc # "Return"

\* C11: a sync applies the placeholder service, then the ingress, then the
\* route rules, each written only at its own step and a step reached only when
\* the one before it has left its object in place; a step that ends with an
\* error hands the sync back to the worker, which writes nothing more.
C11_StepsInOrderErrorAborts ==
  [][\A w \in Workers :
       /\ SyncStep(w)
          => LET o == ObjOf(workers[w].obj)
                 pc == workers[w].pc
                 next == workers'[w].pc
             IN  /\ Rank(next) > Rank(pc)
                 /\ services' # services => pc = "createPlaceholderService"
                 /\ ingresses' # ingresses => pc = "createOrUpdateIngress_Create"
                 /\ routeRules' # routeRules
                      => pc \in {"createOrUpdateRoutes_Create", "createOrUpdateRoutes_Update"}
                 /\ next = "createOrUpdateIngress_Get"
                      => pc = "createPlaceholderService" /\ services'[o] # NoObject
                 /\ next = "getRoutes"
                      => /\ pc \in {"createOrUpdateIngress_Get", "createOrUpdateIngress_Create"}
                         /\ ingresses'[o] # NoObject
                 /\ workers'[w].err # nil => next = "Return"
       /\ (workers[w].pc = "Return" /\ StepOf(w))
          => UNCHANGED << services, ingresses, routeRules, events >>]_vars

\* a sync has failed at the ingress, after the placeholder service was made
\* and before any route was resolved
C11_Witness ==
  \E w \in Workers :
    /\ workers[w].pc = "Return" /\ workers[w].err # nil /\ workers[w].es # NoObject
    /\ services[ObjOf(workers[w].obj)] = MakeElaServiceK8SService(ObjOf(workers[w].obj))
    /\ ingresses[ObjOf(workers[w].obj)] = NoObject
    /\ routeRules[ObjOf(workers[w].obj)] = NoObject

\* C12: an already-exists answer to the Create of the placeholder service, or
\* to the Create of the ingress when another actor made it between the Get and
\* the Create, is not an error of the sync: the sync goes on to its next step.
C12_ExistsIsSuccess ==
  [][\A w \in Workers :
       SyncStep(w)
       => LET o == ObjOf(workers[w].obj)
          IN  /\ (workers[w].pc = "createPlaceholderService" /\ services[o] # NoObject)
                 => /\ workers'[w].err \in {nil, "ServerError"}
                    /\ workers'[w].err = nil => workers'[w].pc = "createOrUpdateIngress_Get"
              /\ (workers[w].pc = "createOrUpdateIngress_Create" /\ ingresses[o] # NoObject)
                 => /\ workers'[w].err \in {nil, "ServerError"}
                    /\ workers'[w].err = nil => workers'[w].pc = "getRoutes"]_vars

\* another actor has made the ingress after the sync's Get did not find it,
\* and the sync is about to create it
C12_Witness ==
  \E w \in Workers :
    /\ workers[w].pc = "createOrUpdateIngress_Create"
    /\ ingresses[ObjOf(workers[w].obj)] = ForeignObject

\* C13: an already-exists answer to the Create of any of the three dependent
\* objects, the route rules included, is not an error of the sync.
C13_ExistsIsSuccessForAll ==
  [][\A w \in Workers :
       SyncStep(w)
       => LET o == ObjOf(workers[w].obj)
          IN  /\ (workers[w].pc = "createPlaceholderService" /\ services[o] # NoObject)
                 => workers'[w].err \in {nil, "ServerError"}
              /\ (workers[w].pc = "createOrUpdateIngress_Create" /\ ingresses[o] # NoObject)
                 => workers'[w].err \in {nil, "ServerError"}
              /\ (workers[w].pc = "createOrUpdateRoutes_Create" /\ routeRules[o] # NoObject)
                 => workers'[w].err \in {nil, "ServerError"}]_vars

\* C14: a sync leaves a placeholder service or an ingress that already
\* exists under the derived name as it is.
C14_ExistingIsNotOverwritten ==
  [][\A w \in Workers :
       (Holds(w) /\ StepOf(w))
       => LET o == ObjOf(workers[w].obj)
          IN  /\ services[o] # NoObject => services'[o] = services[o]
              /\ ingresses[o] # NoObject => ingresses'[o] = ingresses[o]]_vars

\* a sync has succeeded and the ingress is still the one another actor made
C14_Witness ==
  \E w \in Workers :
    /\ workers[w].pc = "Return" /\ workers[w].err = nil /\ workers[w].es # NoObject
    /\ ingresses[ObjOf(workers[w].obj)] = ForeignObject

\* worker w takes the step that ends a sync of an ElaService it has found
\* with no error
SuccessStep(w) ==
  /\ SyncStep(w)
  /\ workers[w].pc # "syncHandler"
  /\ workers'[w].pc = "Return"
  /\ workers'[w].err = nil

\* C15: after a successful sync each of the three dependent objects has the
\* content the controller derives from the ElaService, also when the object
\* was there before with another content.
C15_AllEqualDesired ==
  [][\A w \in Workers :
       SuccessStep(w)
       => LET o == ObjOf(workers[w].obj)
          IN  /\ services'[o] # NoObject
              /\ services'[o].Spec = MakeElaServiceK8SService(o).Spec
              /\ ingresses'[o] # NoObject
              /\ ingresses'[o].Spec = MakeElaServiceIngress(o).Spec
              /\ workers[w].routes # << >>
                   => /\ routeRules'[o] # NoObject
                      /\ routeRules'[o].Spec = MakeElaServiceIstioSpec(o, workers[w].routes)]_vars

\* the part of C15 that is about existence and about the route rules: after a
\* successful sync the placeholder service and the ingress exist, and when
\* there are routes the route rules have the spec made from them
C15_ExistAndRoutesEqualDesired ==
  [][\A w \in Workers :
       SuccessStep(w)
       => LET o == ObjOf(workers[w].obj)
          IN  /\ services'[o] # NoObject
              /\ ingresses'[o] # NoObject
              /\ workers[w].routes # << >>
                   => /\ routeRules'[o] # NoObject
                      /\ routeRules'[o].Spec = MakeElaServiceIstioSpec(o, workers[w].routes)]_vars

\* C16: no step of a worker removes a placeholder service, an ingress or
\* route rules: what exists before the step exists after it.
C16_NothingIsDeleted ==
  [][\A w \in Workers :
       StepOf(w)
       => \A o \in Objs :
            /\ services[o] # NoObject => services'[o] # NoObject
            /\ ingresses[o] # NoObject => ingresses'[o] # NoObject
            /\ routeRules[o] # NoObject => routeRules'[o] # NoObject]_vars

\* a sync has failed at a call to the API server, and the three dependent
\* objects are in place
C16_Witness ==
  \E w \in Workers :
    /\ workers[w].pc = "Return" /\ workers[w].err # nil
    /\ workers[w].calls = << >>
    /\ services[ObjOf(workers[w].obj)] # NoObject
    /\ ingresses[ObjOf(workers[w].obj)] # NoObject
    /\ routeRules[ObjOf(workers[w].obj)] # NoObject

\* C17: with a list of routes that is not empty, a sync whose Get finds no
\* route rules creates them from the routes, and a sync whose Get finds route
\* rules replaces their whole spec by the one made from the routes (nothing
\* of the old spec is kept) and leaves the rest of the object as it is.
C17_CreateOrFullReplace ==
  [][\A w \in Workers :
       SyncStep(w)
       => LET o == ObjOf(workers[w].obj)
              routes == workers[w].routes
          IN  /\ workers[w].pc = "createOrUpdateRoutes_Get"
                 => /\ routes # << >>
                    /\ workers'[w].err = nil
                         => workers'[w].pc = IF routeRules[o] = NoObject
                                             THEN "createOrUpdateRoutes_Create"
                                             ELSE "createOrUpdateRoutes_Update"
              /\ (workers[w].pc = "createOrUpdateRoutes_Create" /\ workers'[w].err = nil)
                 => /\ routeRules[o] = NoObject
                    /\ routeRules'[o] = MakeElaServiceIstioRoutes(o, routes)
              /\ (workers[w].pc = "createOrUpdateRoutes_Update" /\ workers'[w].err = nil)
                 => /\ routeRules'[o].Spec = MakeElaServiceIstioSpec(o, routes)
                    /\ routeRules'[o].OwnerReferences = routeRules[o].OwnerReferences]_vars

\* a sync has replaced the spec of route rules that another actor had made
C17_Witness ==
  \E w \in Workers :
    /\ workers[w].pc = "Return" /\ workers[w].err = nil /\ workers[w].es # NoObject
    /\ routeRules[ObjOf(workers[w].obj)] # NoObject
    /\ routeRules[ObjOf(workers[w].obj)].OwnerReferences = {}
    /\ routeRules[ObjOf(workers[w].obj)].Spec =
         MakeElaServiceIstioSpec(ObjOf(workers[w].obj),
                                 getRoutes(workers[w].es, templates, 0, "none").routes)

\* C18: a sync of an ElaService with no traffic targets ends at the check for
\* an empty list of routes: it makes no Get, Create or Update of the route
\* rules, and route rules that exist keep the spec they have.
C18_NoTargetsNoRouteRuleCall ==
  [][\A w \in Workers :
       (ResolveStep(w) /\ workers[w].es.Traffic = << >>)
       => /\ workers'[w].pc = "Return"
          /\ workers'[w].err = nil
          /\ UNCHANGED routeRules]_vars

\* a sync of an ElaService with no traffic targets has ended, and the route
\* rules of the ElaService exist
C18_Witness ==
  \E w \in Workers :
    /\ workers[w].pc = "Return" /\ workers[w].err = nil /\ workers[w].es # NoObject
    /\ workers[w].es.Traffic = << >>
    /\ routeRules[ObjOf(workers[w].obj)] # NoObject

\* C19: a step of a worker records an event exactly when it ends, with no
\* error, the sync of an ElaService that was found, after the placeholder
\* service, the ingress and the route rules steps; the event is one Synced
\* event for that ElaService. A sync that returns an error and a sync of a
\* key that is not found record nothing.
C19_SyncedIffSuccess ==
  [][\A w \in Workers :
       StepOf(w)
       => IF SuccessStep(w)
          THEN /\ workers[w].pc \in {"getRoutes", "createOrUpdateRoutes_Create",
                                     "createOrUpdateRoutes_Update"}
               /\ workers[w].es # NoObject
               /\ services'[ObjOf(workers[w].obj)] # NoObject
               /\ ingresses'[ObjOf(workers[w].obj)] # NoObject
               /\ events' = [events EXCEPT ![ObjOf(workers[w].obj)].Normal = @ + 1]
          ELSE UNCHANGED events]_vars

\* a sync of an ElaService has failed after an earlier sync of it has
\* succeeded, and the one event is that of the earlier sync
C19_Witness ==
  \E w \in Workers :
    /\ workers[w].pc = "Return" /\ workers[w].err # nil
    /\ events[ObjOf(workers[w].obj)].Normal = 1

\* C20: when a sync has failed and the worker has dealt with the error, a
\* failure event is recorded for the ElaService.
C20_FailedSyncRecordsEvent ==
  [][\A w \in Workers :
       (workers[w].pc = "Return" /\ workers[w].err # nil /\ StepOf(w))
       => events'[ObjOf(workers[w].obj)].Warning >= 1]_vars

\* C21: the sync of a key that does not split into a namespace and a name
\* returns nil with nothing read and no dependent object or event touched;
\* the worker then forgets the key, calls Done, and does not put it in the
\* queue or in the delaying queue again.
C21_MalformedKeyIsDropped ==
  [][\A w \in Workers :
       /\ (workers[w].pc = "syncHandler" /\ StepOf(w)
             /\ SplitMetaNamespaceKey(workers[w].obj).err # nil)
          => /\ workers'[w].pc = "Return"
             /\ workers'[w].err = nil
             /\ workers'[w].es = NoObject
             /\ UNCHANGED << services, ingresses, routeRules, events >>
       /\ (workers[w].pc = "Return" /\ workers[w].obj = MalformedKey /\ StepOf(w))
          => /\ workqueue'.failures[MalformedKey] = 0
             /\ MalformedKey \notin workqueue'.processing
             /\ workqueue'.waitingForAdd = workqueue.waitingForAdd
             /\ MalformedKey \in workqueue'.dirty => MalformedKey \in workqueue.dirty
             /\ UNCHANGED << services, ingresses, routeRules, events >>]_vars

\* the sync of the key a/b/c has just returned nil
C21_Witness ==
  \E w \in Workers :
    /\ workers[w].pc = "Return" /\ workers[w].obj = MalformedKey /\ workers[w].err = nil

\* C25: a worker has every item it got from the queue marked as being
\* processed until the end of processNextWorkItem, where Done takes the
\* mark off and the worker lets go of the item: whether the sync succeeded,
\* failed, or the item was not a string.
C25_DoneOncePerGet ==
  [][\A w \in Workers :
       StepOf(w)
       => /\ (workers[w].pc = "Get" /\ workers'[w].pc # "Until")
             => /\ workers'[w].obj = Head(workqueue.queue)
                /\ workers'[w].obj \in workqueue'.processing
          /\ (Holds(w) /\ workers[w].pc # "Return")
             => /\ workers'[w].obj = workers[w].obj
                /\ workers[w].obj \in workqueue'.processing
          /\ workers[w].pc = "Return"
             => /\ workers[w].obj \in workqueue.processing
                /\ workers[w].obj \notin workqueue'.processing
                /\ workers'[w].obj = NoKey]_vars

\* nil is being returned for an item that is not a string, after a sync of
\* the ElaService has made its placeholder service
C25_Witness ==
  \E w \in Workers :
    /\ workers[w].pc = "Return" /\ workers[w].obj = NotAString
    /\ services[ObjA] # NoObject

\* object, a dependent object that exists, has no owner reference to o
Unowned(object, o) ==
  object # NoObject /\ NewControllerRef(o) \notin object.OwnerReferences

\* C22: no step of a sync changes a placeholder service, an ingress or
\* route rules that exist under the derived name without an owner reference
\* to the ElaService being synced.
C22_UnownedIsNotModified ==
  [][\A w \in Workers :
       SyncStep(w)
       => LET o == ObjOf(workers[w].obj)
          IN  /\ Unowned(services[o], o) => services'[o] = services[o]
              /\ Unowned(ingresses[o], o) => ingresses'[o] = ingresses[o]
              /\ Unowned(routeRules[o], o) => routeRules'[o] = routeRules[o]]_vars

\* C23: Run returns only after stopCh is closed, it has shut the queue down
\* when it returns, and at its return no worker is still processing an item.
C23_RunDrainsBeforeReturn ==
  [][(run.pc = "started" /\ run'.pc = "returned")
     => /\ run.stopCh
        /\ workqueue'.shuttingDown
        /\ \A w \in Workers : ~Holds(w)]_vars

\* the workers that Run has started have all left wait.Until
AllExited == \A w \in Workers : workers[w].pc \in {"exited", "notStarted"}

\* C24: once stopCh is closed every worker exits, under fair scheduling. A
\* worker that holds an item does not leave its loop: it lets go of the item
\* only at the end of processNextWorkItem, where Done is called, and it
\* leaves only from a Get on the queue shut down and empty, which always
\* answers shutdown.
C24_WorkersExitAfterDrain ==
  /\ run.stopCh ~> AllExited
  /\ [][\A w \in Workers :
          (StepOf(w) /\ workers[w].pc # "notStarted")
          => /\ Holds(w)
                => /\ workers'[w].pc \notin {"Until", "exited"}
                   /\ workers'[w].obj = NoKey
                        => /\ workers[w].pc = "Return"
                           /\ workers[w].obj \notin workqueue'.processing
             /\ workers'[w].pc = "Until"
                => /\ workers[w].pc = "Get"
                   /\ workqueue.shuttingDown /\ workqueue.queue = << >>
             /\ (workers[w].pc = "Get" /\ workqueue.shuttingDown /\ workqueue.queue = << >>)
                => workers'[w].pc = "Until"]_vars

\* every worker has exited after stopCh was closed and the queue shut down,
\* and the ElaService has been synced
C24_Witness ==
  /\ run.stopCh /\ run.pc = "returned" /\ workqueue.shuttingDown
  /\ \A w \in Workers : workers[w].pc = "exited"
  /\ events[ObjA].Normal >= 1

\* C26: when a sync has returned nil, the worker's Forget leaves the count of
\* requeues of the key at zero, whatever it was: the delay of the next
\* notification of the key does not grow with what came before.
C26_SuccessForgets ==
  [][\A w \in Workers :
       (workers[w].pc = "Return" /\ workers[w].err = nil /\ StepOf(w))
       => workqueue'.failures[workers[w].obj] = 0]_vars

\* an ElaService has been notified and synced, no worker holds its key, and
\* the count of requeues of the key is zero again
C26_Witness ==
  \E o \in Objs :
    /\ hist[o].gen >= 1 /\ events[o].Normal >= 1
    /\ ~InFlight(o)
    /\ workqueue.failures[MetaNamespaceKeyFunc(o)] = 0

\* C28: at the end of processNextWorkItem the worker is back at Get with no
\* item, after a sync that failed as after one that succeeded, and the item
\* is no longer marked as being processed: the worker takes whatever item is
\* at the head of the queue next.
C28_FailureDoesNotStopWorker ==
  [][\A w \in Workers :
       /\ (workers[w].pc = "Return" /\ StepOf(w))
          => /\ workers'[w] = IdleWorker("Get")
             /\ workers[w].obj \notin workqueue'.processing
       /\ (workers[w].pc = "Get" /\ StepOf(w) /\ workqueue.queue # << >>)
          => workers'[w].obj = Head(workqueue.queue)]_vars

\* the one worker of the pool holds the key of b after its sync of a has
\* failed: a is in the cache, its key is nowhere in the queue, and no event
\* is recorded for it
C28_Witness ==
  LET a == [Namespace |-> Namespace, Name |-> "a"]
      b == [Namespace |-> Namespace, Name |-> "b"]
  IN  /\ run.threadiness = 1
      /\ workers[1].obj = MetaNamespaceKeyFunc(b)
      /\ hist[a].gen >= 1 /\ events[a].Normal = 0
      /\ MetaNamespaceKeyFunc(a) \notin
           Queued \cup workqueue.waitingForAdd \cup workqueue.dirty \cup workqueue.processing

\* C30: the keys being synced are never more than the threadiness passed to
\* Run, and two keys can be in the middle of their syncs at once.
C30_AtMostThreadinessInFlight ==
  /\ Cardinality({ w \in Workers : Holds(w) }) <= run.threadiness
  /\ Cardinality(workqueue.processing) <= run.threadiness

\* two workers are in the middle of the syncs of two different keys
C30_Witness ==
  \E w1, w2 \in Workers :
    /\ workers[w1].obj # workers[w2].obj
    /\ workers[w1].pc = "createOrUpdateRoutes_Get"
    /\ workers[w2].pc = "createOrUpdateIngress_Get"

C29_NoSyncBeforeCacheSync ==
  /\ run.pc \in {"WaitForCacheSync", "failed"}
       => \A w \in Workers : workers[w] = IdleWorker("notStarted")
  /\ run.pc = "failed" => workqueue.shuttingDown
  /\ (\E w \in Workers : workers[w].pc # "notStarted")
       => run.pc \in {"started", "returned"}

\* Run has returned the error of the cache sync, while a notification of the
\* ElaService had reached the queue
C29_Witness ==
  /\ run.pc = "failed"
  /\ hist[ObjA].gen >= 1
  /\ workqueue.failures[MetaNamespaceKeyFunc(ObjA)] >= 1

\* C31: every add or update notification of an ElaService adds one to the
\* count of requeues of its key; the count of an item goes down only when a
\* worker returns from that item with no error (a sync that succeeded, or an
\* item that was dropped), and then to zero; a sync that failed leaves it as
\* it was, so the count only grows while the syncs of the key keep failing.
C31_RequeuesGrowUntilSuccess ==
  [][/\ \A o \in Objs :
          hist'[o].gen # hist[o].gen
          => workqueue'.failures[MetaNamespaceKeyFunc(o)]
               = workqueue.failures[MetaNamespaceKeyFunc(o)] + 1
     /\ \A item \in Items :
          workqueue'.failures[item] < workqueue.failures[item]
          => /\ workqueue'.failures[item] = 0
             /\ \E w \in Workers :
                  /\ workers[w].pc = "Return" /\ workers[w].obj = item
                  /\ workers[w].err = nil /\ StepOf(w)
     /\ \A w \in Workers :
          (workers[w].pc = "Return" /\ workers[w].err # nil /\ StepOf(w))
          => workqueue'.failures = workqueue.failures]_vars

\* the ElaService has been notified twice and every sync of its key has
\* failed: the key is nowhere in the queue, no event is recorded, and the
\* count of requeues of the key is the number of notifications
C31_Witness ==
  /\ hist[ObjA].gen >= 2
  /\ events[ObjA].Normal = 0
  /\ workqueue.failures[MetaNamespaceKeyFunc(ObjA)] = hist[ObjA].gen
  /\ MetaNamespaceKeyFunc(ObjA) \notin
       Queued \cup workqueue.waitingForAdd \cup workqueue.dirty \cup workqueue.processing

\* target tt names both a revision and a template
BothSet(tt) == tt.Revision # "" /\ tt.RevisionTemplate # ""

\* C32: for a target that names both a Revision and a RevisionTemplate the
\* template wins: when the rollout resolves, one revision has been fetched
\* per target, the one fetched for that target is the Latest of its
\* template, and the route is that revision's service with the target's
\* Percent; the Revision the target names plays no part.
C32_TemplateTakesPrecedence ==
  [][\A w \in Workers :
       (ResolveStep(w) /\ workers'[w].pc = "createOrUpdateRoutes_Get")
       => LET traffic == workers[w].es.Traffic
              revs == SelectSeq(workers'[w].calls, IsRevisionCall)
          IN  /\ Len(revs) = Len(traffic)
              /\ \A i \in 1..Len(traffic) :
                   BothSet(traffic[i])
                   => /\ revs[i][2] = templates[traffic[i].RevisionTemplate]
                      /\ << "RevisionTemplates", traffic[i].RevisionTemplate >>
                           \in { workers'[w].calls[j] : j \in 1..Len(workers'[w].calls) }
                      /\ workers'[w].routes[i] =
                           RevisionRoute(
                             RevisionServiceName(templates[traffic[i].RevisionTemplate])
                               \o "." \o GetElaNamespaceName(workers[w].es.Namespace),
                             traffic[i].Percent)]_vars

\* a rollout has been resolved in which a target names both a template and
\* a revision that is not the Latest of the template, and the route of the
\* target is to the service of the Latest
C32_Witness ==
  \E w \in Workers :
    /\ workers[w].pc = "createOrUpdateRoutes_Get"
    /\ \E i \in 1..Len(workers[w].es.Traffic) :
         LET tt == workers[w].es.Traffic[i]
         IN  /\ BothSet(tt)
             /\ templates[tt.RevisionTemplate] # tt.Revision
             /\ workers[w].routes[i].Service =
                  RevisionServiceName(templates[tt.RevisionTemplate]) \o "."
                    \o GetElaNamespaceName(workers[w].es.Namespace)

\* C33: a sync of an ElaService with an empty traffic list that has come
\* through the placeholder and ingress steps returns nil and records one
\* Synced event for the ElaService, whose placeholder service and ingress
\* exist then, whether its route rules exist or not; so there are states
\* with a Synced event for an ElaService that has no route rules.
C33_EmptyTrafficIsSynced ==
  [][\A w \in Workers :
       (ResolveStep(w) /\ workers[w].es.Traffic = << >>)
       => LET o == ObjOf(workers[w].obj)
          IN  /\ workers'[w].pc = "Return" /\ workers'[w].err = nil
              /\ events' = [events EXCEPT ![o].Normal = @ + 1]
              /\ services[o] # NoObject /\ ingresses[o] # NoObject
              /\ routeRules'[o] = routeRules[o]]_vars

\* a Synced event is recorded for an ElaService that has a placeholder
\* service and an ingress and no route rules
C33_Witness ==
  \E o \in Objs :
    /\ events[o].Normal >= 1
    /\ services[o] # NoObject /\ ingresses[o] # NoObject
    /\ routeRules[o] = NoObject

====
